---- MODULE Spec2Model ----
(***************************************************************************)
(* State-machine model of the IPDIS PostgreSQL client                      *)
(* (src/api/postgres/src/client.rs): the trust registry                    *)
(* (accounts_guarantees), the IDF engine (idf_logs + idf_words) and the    *)
(* mutex-guarded backend connection they share.                            *)
(*                                                                         *)
(* The backend is modelled as committed tables `db` plus one write set     *)
(* `tx[p]` per caller that is inside a transaction; a statement sees the   *)
(* committed rows with its own write set applied, COMMIT applies the write *)
(* set to the committed tables and ROLLBACK drops it.                      *)
(***************************************************************************)
EXTENDS Integers, Sequences, FiniteSets, TLC

\* ------------------------------------------------------------------ bounds
MaxTime == 1        \* the backend clock runs over 0..MaxTime
MaxLogs == 2        \* idf_logs rows ever inserted (its id sequence)
MaxRegs == 1        \* accounts_guarantees rows ever inserted (its id sequence)
MaxPaths == 2       \* dyn_paths rows ever inserted (its id sequence)

\* ----------------------------------------------------------------- inputs
None == "none"                            \* Option::None, a NULL, an unused field
Callers == {"c1", "c2"}
Servers == {"s1", "s2"}
Me == "S"                                 \* account_me().account_ref()
Accounts == {"S", "C"}
Kinds == {"K1", "K2"}
NoExp == -1                               \* expiration_date IS NULL
Expirations == {NoExp, 0}
Key(kind, lang, word) == [kind |-> kind, lang |-> lang, word |-> word]
Keys == {Key("K1", "en", "hello"), Key("K1", "en", "world"), Key("K2", "en", "hello")}
NoKey == Key(None, None, None)
\* the signed words callers submit: who signed, the word, the expiration
SignedWord(guarantee, key, expiration) ==
    [guarantee |-> guarantee, key |-> key, expiration_date |-> expiration]
SignedWords ==
    {SignedWord("C", Key("K1", "en", "hello"), NoExp),
     SignedWord("S", Key("K1", "en", "world"), 0),
     SignedWord("C", Key("K2", "en", "hello"), NoExp)}

\* a path length, a u64: whether bit 63 is set, and the lower 63 bits
U64(top, low) == [top |-> top, low |-> low]
\* the content of a dynamic path: ipis::path::Path { value, len }
PathData(value, len) == [path |-> value, len |-> len]
NoData == PathData(None, U64(FALSE, 0))
\* the signed paths callers submit: who signed, (kind, word), the path, the expiration
SignedPath(guarantee, kind, word, data, expiration) ==
    [guarantee |-> guarantee, key |-> Key(kind, None, word), data |-> data,
     expiration_date |-> expiration]
SignedPaths ==
    {SignedPath("S", "K1", "hello", PathData("A", U64(FALSE, 13)), NoExp),
     SignedPath("S", "K1", "hello", PathData("B", U64(FALSE, 7)), NoExp),
     SignedPath("C", "K1", "hello", PathData("A", U64(FALSE, 13)), 0),
     SignedPath("S", "K2", "hello", PathData("A", U64(TRUE, 0)), NoExp)}

VARIABLES
    now,        \* the backend clock (SQL now)
    db,         \* committed tables
    seq,        \* the id sequences of the tables
    mutex,      \* per server: the caller holding connection.lock(), or None
    serverOf,   \* the server (connection) each caller talks to
    pc,         \* each caller's position in its operation
    req,        \* each caller's request in progress
    local,      \* each caller's local variable idf_word (the popped aggregate)
    tx,         \* each caller's open transaction: its write set
    ret,        \* what the last step returned to its caller (NoRet: nothing)
    puts        \* per key: put_idf_log calls that returned Ok since the key last had no rows

vars == <<now, db, seq, mutex, serverOf, pc, req, local, tx, ret, puts>>

\* --------------------------------------------------------- requests, returns
Req(op, guarantee, guarantor, key, expiration) ==
    [op |-> op, guarantee |-> guarantee, guarantor |-> guarantor, key |-> key,
     created_date |-> now, expiration_date |-> expiration, data |-> NoData]
NoReq == [op |-> None, guarantee |-> None, guarantor |-> None, key |-> NoKey,
          created_date |-> 0, expiration_date |-> NoExp, data |-> NoData]

Ok == [ok |-> TRUE, err |-> None, count |-> 0, rows |-> {}]
OkCount(n) == [ok |-> TRUE, err |-> None, count |-> n, rows |-> {}]
OkRows(rs) == [ok |-> TRUE, err |-> None, count |-> 0, rows |-> rs]
Err(e) == [ok |-> FALSE, err |-> e, count |-> 0, rows |-> {}]

\* the response to request r with result v
Response(r, v) == [op |-> r.op, guarantee |-> r.guarantee, guarantor |-> r.guarantor,
                   key |-> r.key, data |-> r.data, result |-> v]
NoRet == Response(NoReq, Ok)

NoWord == [id |-> 0, kind |-> None, lang |-> None, word |-> None, count |-> 0]
NoTx == [insLogs |-> {}, insWords |-> {}, updWords |-> {}, delWords |-> {}, delLogs |-> {}]

\* ------------------------------------------------------------------ backend
\* (mutant) the filter on expiration_date is left out
TimeValidNoExpiry(r, t) == r.created_date < t

\* created_date < now AND (expiration_date >= now OR expiration_date IS NULL)
TimeValid(r, t) ==
    /\ r.created_date < t
    /\ (r.expiration_date >= t \/ r.expiration_date = NoExp)

KeyOf(r) == Key(r.kind, r.lang, r.word)

UpdatedCount(t, r) ==
    IF \E u \in t.updWords : u[1] = r.id
    THEN (CHOOSE u \in t.updWords : u[1] = r.id)[2]
    ELSE r.count

\* the tables after the write set t is applied to the committed tables d
Apply(d, t) ==
    [d EXCEPT
        !.idf_logs = {r \in @ : r.id \notin t.delLogs} \cup t.insLogs,
        !.idf_words = {[r EXCEPT !.count = UpdatedCount(t, r)] :
                          r \in {x \in @ : x.id \notin t.delWords}} \cup t.insWords]

\* (mutant) a statement also reads the uncommitted writes of the other callers
VisibleDirty(p) ==
    LET all == [insLogs |-> UNION {tx[q].insLogs : q \in Callers},
                insWords |-> UNION {tx[q].insWords : q \in Callers},
                updWords |-> tx[p].updWords,
                delWords |-> UNION {tx[q].delWords : q \in Callers},
                delLogs |-> UNION {tx[q].delLogs : q \in Callers}]
    IN  Apply(db, all)

\* what a statement of caller p reads: the committed rows and p's own writes
Visible(p) == Apply(db, tx[p])

\* COMMIT makes the write set of the transaction the committed state
Commit(d, t) == Apply(d, t)

\* (mutant) the statements were run outside a transaction: a failure keeps them
RollbackNothing(d, t) == Apply(d, t)

\* ROLLBACK drops the write set: the committed tables stay as they are
Rollback(d, t) == d

\* (mutant) the aggregate is read only while some guarantee is registered
WordRowsOfRegistered(d, key) ==
    {r \in d.idf_words : KeyOf(r) = key /\ d.accounts_guarantees # {}}

WordRows(d, key) == {r \in d.idf_words : KeyOf(r) = key}
LogRows(d, key) == {r \in d.idf_logs : KeyOf(r) = key}

\* Vec::pop() of a result set read without ORDER BY: any of its rows, None when empty
Pop(rows) == IF rows = {} THEN {NoWord} ELSE rows

\* (mutant) the connection is used without taking its lock
MutexIgnored(p) == TRUE

\* connection.lock() can be taken
MutexFree(p) == mutex[serverOf[p]] = None

\* ------------------------------------------------------------------- Init
Init ==
    /\ now = 0
    /\ db = [accounts_guarantees |-> {}, dyn_paths |-> {}, idf_words |-> {}, idf_logs |-> {}]
    /\ seq = [accounts_guarantees |-> 1, dyn_paths |-> 1, idf_words |-> 1, idf_logs |-> 1]
    /\ mutex = [s \in Servers |-> None]
    /\ serverOf = [p \in Callers |-> "s1"]
    /\ pc = [p \in Callers |-> "idle"]
    /\ req = [p \in Callers |-> NoReq]
    /\ local = [p \in Callers |-> NoWord]
    /\ tx = [p \in Callers |-> NoTx]
    /\ ret = NoRet
    /\ puts = [k \in Keys |-> 0]

\* the backend clock advances
Tick ==
    /\ now < MaxTime
    /\ now' = now + 1
    /\ ret' = NoRet
    /\ UNCHANGED <<db, seq, mutex, serverOf, pc, req, local, tx, puts>>

\* a caller returns v for request r without touching the backend
Return(p, r, v) ==
    /\ pc' = [pc EXCEPT ![p] = "idle"]
    /\ req' = [req EXCEPT ![p] = NoReq]
    /\ ret' = Response(r, v)
    /\ UNCHANGED <<now, db, seq, mutex, serverOf, local, tx, puts>>

\* a caller passes its early checks and goes on to connection.lock().await
Proceed(p, r, to) ==
    /\ pc' = [pc EXCEPT ![p] = to]
    /\ req' = [req EXCEPT ![p] = r]
    /\ ret' = NoRet
    /\ UNCHANGED <<now, db, seq, mutex, serverOf, local, tx, puts>>

\* one statement run on the connection outside a transaction: the lock guard
\* is a temporary of the statement, taken before it and dropped after it
Statement(p, r, d, s, v) ==
    /\ MutexFree(p)
    /\ db' = d
    /\ seq' = s
    /\ pc' = [pc EXCEPT ![p] = "idle"]
    /\ req' = [req EXCEPT ![p] = NoReq]
    /\ ret' = Response(r, v)
    /\ UNCHANGED <<now, mutex, serverOf, local, tx, puts>>

\* the statement fails in the backend (connection failure, constraint violation)
StatementFails(p, r) == Statement(p, r, db, seq, Err("backend"))

\* the caller drops the call while it waits at connection.lock().await, the
\* only await of an operation: nothing was sent to the backend yet
Abandon(p) ==
    /\ pc[p] \in {"ensure_query", "add_insert", "path_insert", "put_ensure", "put_lock", "del_lock"}
    /\ Return(p, req[p], Err("abandoned"))

\* ---------------------------------------------------------- trust registry
\* (mutant) the guarantor is not compared with the server's account
GuarantorUnchecked(guarantor) == FALSE

\* if guarantor != &guarantor_now { bail!(...) }
GuarantorMismatch(guarantor) == guarantor # Me

\* (mutant) self-authentication is not skipped
SelfAuthenticationLookedUp(guarantee, guarantor) == FALSE

\* if guarantee == guarantor { return Ok(()) }
SelfAuthentication(guarantee, guarantor) == guarantee = guarantor

\* the table the registration query selects from, and the table whose
\* columns its filters name
EnsureFromTable == "dyn_paths"
EnsureFilterTable == "accounts_guarantees"

RegistrationMatches(r, guarantee, guarantor, t) ==
    /\ r.guarantee = guarantee
    /\ r.guarantor = guarantor
    /\ TimeValid(r, t)

\* .execute(): the number of rows of the query, or the backend's error when
\* a filter names a column of a table that is not in the FROM clause
ExecuteCount(d, from, filterTable, guarantee, guarantor, t) ==
    IF filterTable # from
    THEN Err("missing FROM-clause entry")
    ELSE OkCount(Cardinality({r \in d[from] : RegistrationMatches(r, guarantee, guarantor, t)}))

\* (mutant) the result of the lookup is not examined
EnsureResultUnexamined(d, guarantee, guarantor, t) == Ok

\* .and_then(|count| if count > 0 { Ok(()) } else { bail!(...) })
EnsureResult(d, guarantee, guarantor, t) ==
    LET n == ExecuteCount(d, EnsureFromTable, EnsureFilterTable, guarantee, guarantor, t)
    IN  IF ~n.ok THEN n
        ELSE IF n.count > 0 THEN Ok
        ELSE Err("guarantee")

EnsureRegistered(p, guarantee, guarantor) ==
    /\ pc[p] = "idle"
    /\ LET r == Req("ensure_registered", guarantee, guarantor, NoKey, NoExp)
       IN  IF GuarantorMismatch(guarantor)
           THEN Return(p, r, Err("guarantor"))
           ELSE IF SelfAuthentication(guarantee, guarantor)
           THEN Return(p, r, Ok)
           ELSE Proceed(p, r, "ensure_query")

EnsureQuery(p) ==
    /\ pc[p] = "ensure_query"
    /\ \/ Statement(p, req[p], db, seq,
                    EnsureResult(db, req[p].guarantee, req[p].guarantor, now))
       \/ StatementFails(p, req[p])

\* (mutant) the payload is stored before its signature is verified
SignAfterInsert(p, op, guarantee, key, expiration, verifies, to) ==
    LET r == Req(op, guarantee, Me, key, expiration)
        row == [id |-> seq.accounts_guarantees, guarantee |-> guarantee, guarantor |-> Me,
                created_date |-> now, expiration_date |-> expiration]
    IN  IF verifies
        THEN Proceed(p, r, to)
        ELSE Statement(p, r, [db EXCEPT !.accounts_guarantees = @ \cup {row}],
                       seq, Err("signature"))

\* sign_as_guarantor: the server's counter-signature over the caller's signed
\* payload; it fails on a payload whose signature does not verify
SignAsGuarantor(p, op, guarantee, key, expiration, verifies, to) ==
    IF verifies
    THEN Proceed(p, Req(op, guarantee, Me, key, expiration), to)
    ELSE Return(p, Req(op, guarantee, Me, key, expiration), Err("signature"))

AddGuarantee(p, guarantee, expiration, verifies) ==
    /\ pc[p] = "idle"
    /\ seq.accounts_guarantees
         + Cardinality({q \in Callers : pc[q] = "add_insert"}) <= MaxRegs
    /\ SignAsGuarantor(p, "add_guarantee", guarantee, NoKey, expiration, verifies, "add_insert")

NewAccountsGuarantee(id, r) ==
    [id |-> id, guarantee |-> r.guarantee, guarantor |-> r.guarantor,
     created_date |-> r.created_date, expiration_date |-> r.expiration_date]

AddInsert(p) ==
    /\ pc[p] = "add_insert"
    /\ \/ Statement(p, req[p],
            [db EXCEPT !.accounts_guarantees =
                @ \cup {NewAccountsGuarantee(seq.accounts_guarantees, req[p])}],
            [seq EXCEPT !.accounts_guarantees = @ + 1],
            Ok)
       \/ StatementFails(p, req[p])

\* delete_guarantee: every registration row of the guarantee, whoever the guarantor
DeleteGuaranteeRows(d, guarantee) ==
    [d EXCEPT !.accounts_guarantees = {r \in @ : r.guarantee # guarantee}]

DeleteGuarantee(p, guarantee) ==
    /\ pc[p] = "idle"
    /\ LET r == Req("delete_guarantee", guarantee, None, NoKey, NoExp)
       IN  \/ Statement(p, r, DeleteGuaranteeRows(db, guarantee), seq, Ok)
           \/ StatementFails(p, r)

\* -------------------------------------------------------------- IDF engine
\* positions inside .transaction(|conn| ..): the connection is locked, BEGIN was sent
TxStates == {"put_select", "put_write", "del_logs"}

\* (mutant) the guard is a temporary of the first statement: it is dropped
\* when the statement ends, and the transaction goes on without it
LockDroppedAfterBegin(p, t, s, to) ==
    /\ mutex[serverOf[p]] = None
    /\ tx' = [tx EXCEPT ![p] = t]
    /\ seq' = s
    /\ pc' = [pc EXCEPT ![p] = to]
    /\ ret' = NoRet
    /\ UNCHANGED <<now, db, mutex, serverOf, req, local, puts>>

\* self.connection.lock().await, .transaction(..): BEGIN, and the first
\* statement of the closure, which adds to the write set
LockAndBegin(p, t, s, to) ==
    /\ MutexFree(p)
    /\ mutex' = [mutex EXCEPT ![serverOf[p]] = p]
    /\ tx' = [tx EXCEPT ![p] = t]
    /\ seq' = s
    /\ pc' = [pc EXCEPT ![p] = to]
    /\ ret' = NoRet
    /\ UNCHANGED <<now, db, serverOf, req, local, puts>>

\* a later statement of the closure: it reads into `local`
InTransaction(p, w, to) ==
    /\ local' = [local EXCEPT ![p] = w]
    /\ pc' = [pc EXCEPT ![p] = to]
    /\ ret' = NoRet
    /\ UNCHANGED <<now, db, seq, mutex, serverOf, req, tx, puts>>

\* the closure ends: the committed tables become d, the guard is dropped
EndTransaction(p, d, s, v) ==
    /\ db' = d
    /\ seq' = s
    /\ tx' = [tx EXCEPT ![p] = NoTx]
    /\ local' = [local EXCEPT ![p] = NoWord]
    /\ mutex' = [mutex EXCEPT ![serverOf[p]] = None]
    /\ pc' = [pc EXCEPT ![p] = "idle"]
    /\ req' = [req EXCEPT ![p] = NoReq]
    /\ ret' = Response(req[p], v)
    /\ UNCHANGED <<now, serverOf>>

\* the first statement fails: BEGIN, the error, ROLLBACK, the guard is dropped
FirstStatementFails(p) ==
    /\ pc[p] \in {"put_lock", "del_lock"}
    /\ StatementFails(p, req[p])

\* (mutant) the error path leaves without dropping the guard
TransactionFailsHoldingLock(p) ==
    /\ pc[p] \in {"put_select", "put_write", "del_logs"}
    /\ tx' = [tx EXCEPT ![p] = NoTx]
    /\ local' = [local EXCEPT ![p] = NoWord]
    /\ pc' = [pc EXCEPT ![p] = "idle"]
    /\ req' = [req EXCEPT ![p] = NoReq]
    /\ ret' = Response(req[p], Err("backend"))
    /\ UNCHANGED <<now, db, seq, mutex, serverOf, puts>>

\* a later statement (or COMMIT) fails: `?` leaves the closure, ROLLBACK
TransactionFails(p) ==
    /\ pc[p] \in TxStates
    /\ EndTransaction(p, Rollback(db, tx[p]), seq, Err("backend"))
    /\ UNCHANGED puts

NewIdfLog(id, r) ==
    [id |-> id, guarantee |-> r.guarantee, guarantor |-> r.guarantor,
     created_date |-> r.created_date, expiration_date |-> r.expiration_date,
     kind |-> r.key.kind, lang |-> r.key.lang, word |-> r.key.word]

\* (mutant) a new aggregate starts one below the count it is given
NewIdfWordOffByOne(id, key, count) ==
    [id |-> id, kind |-> key.kind, lang |-> key.lang, word |-> key.word, count |-> count - 1]

NewIdfWord(id, key, count) ==
    [id |-> id, kind |-> key.kind, lang |-> key.lang, word |-> key.word, count |-> count]

PutIdfLog(p, word, verifies) ==
    /\ pc[p] = "idle"
    /\ seq.idf_logs + Cardinality({q \in Callers : pc[q] = "put_lock"}) <= MaxLogs
    /\ SignAsGuarantor(p, "put_idf_log", word.guarantee, word.key, word.expiration_date,
                       verifies, "put_lock")

\* lock, BEGIN, insert the log record
PutInsertLog(p) ==
    /\ pc[p] = "put_lock"
    /\ LockAndBegin(p,
           [tx[p] EXCEPT !.insLogs = @ \cup {NewIdfLog(seq.idf_logs, req[p])}],
           [seq EXCEPT !.idf_logs = @ + 1],
           "put_select")

\* check whether word exists
PutSelect(p) ==
    /\ pc[p] = "put_select"
    /\ \E w \in Pop(WordRows(Visible(p), req[p].key)) :
           InTransaction(p, w, "put_write")

\* (mutant) the update writes back the count it read
WordWriteSameCount(t, s, key, w) ==
    IF w.id # 0
    THEN [t EXCEPT !.updWords = @ \cup {<<w.id, w.count>>}]
    ELSE [t EXCEPT !.insWords = @ \cup {NewIdfWord(s.idf_words, key, 1)}]

\* (mutant) the update subtracts from the count it read
WordWriteCountsDown(t, s, key, w) ==
    IF w.id # 0
    THEN [t EXCEPT !.updWords = @ \cup {<<w.id, w.count - 1>>}]
    ELSE [t EXCEPT !.insWords = @ \cup {NewIdfWord(s.idf_words, key, 1)}]

\* (mutant) the count of an old word is stored as one more aggregate row
WordWriteAlwaysInserts(t, s, key, w) ==
    [t EXCEPT !.insWords = @ \cup {NewIdfWord(s.idf_words, key, w.count + 1)}]

\* old word => append the count; new word => insert the word record
WordWrite(t, s, key, w) ==
    IF w.id # 0
    THEN [t EXCEPT !.updWords = @ \cup {<<w.id, w.count + 1>>}]
    ELSE [t EXCEPT !.insWords = @ \cup {NewIdfWord(s.idf_words, key, 1)}]

\* the update or insert of the aggregate, COMMIT
PutWrite(p) ==
    /\ pc[p] = "put_write"
    /\ EndTransaction(p,
           Commit(db, WordWrite(tx[p], seq, req[p].key, local[p])),
           IF local[p].id # 0 THEN seq ELSE [seq EXCEPT !.idf_words = @ + 1],
           Ok)
    /\ puts' = [puts EXCEPT ![req[p].key] = @ + 1]

DeleteIdfAll(p, kind) ==
    /\ pc[p] = "idle"
    /\ Proceed(p, Req("delete_idf_all", None, None, [NoKey EXCEPT !.kind = kind], NoExp),
               "del_lock")

\* rows of a table with the given kind, as the DELETE's filter picks them
IdsOfKind(rows, kind) == {r.id : r \in {x \in rows : x.kind = kind}}

\* lock, BEGIN, delete(idf_words).filter(kind.eq(kind))
DelWords(p) ==
    /\ pc[p] = "del_lock"
    /\ LockAndBegin(p,
           [tx[p] EXCEPT !.delWords = @ \cup IdsOfKind(Visible(p).idf_words, req[p].key.kind)],
           seq, "del_logs")

\* (mutant) only the aggregate rows are deleted
DelLogsForgotten(p) ==
    /\ pc[p] = "del_logs"
    /\ EndTransaction(p, Commit(db, tx[p]), seq, Ok)
    /\ puts' = [k \in Keys |-> IF k.kind = req[p].key.kind THEN 0 ELSE puts[k]]

\* delete(idf_logs).filter(kind.eq(kind)), COMMIT
DelLogs(p) ==
    /\ pc[p] = "del_logs"
    /\ EndTransaction(p,
           Commit(db, [tx[p] EXCEPT !.delLogs =
                          @ \cup IdsOfKind(Visible(p).idf_logs, req[p].key.kind)]),
           seq, Ok)
    /\ puts' = [k \in Keys |-> IF k.kind = req[p].key.kind THEN 0 ELSE puts[k]]

\* Some(record) => record.count, None => 0
CountOf(w) == IF w.id # 0 THEN w.count ELSE 0

GetIdfCount(p, key) ==
    /\ pc[p] = "idle"
    /\ LET r == Req("get_idf_count", None, None, key, NoExp)
       IN  \/ \E w \in Pop(WordRows(Visible(p), key)) :
                  Statement(p, r, db, seq, OkCount(CountOf(w)))
           \/ StatementFails(p, r)

\* guarantee.unwrap_or(&guarantor)
UnwrapOr(guarantee, guarantor) == IF guarantee = None THEN guarantor ELSE guarantee

IdfLogsOf(d, guarantee, key, t) ==
    {r \in d.idf_logs :
        /\ r.guarantee = UnwrapOr(guarantee, Me)
        /\ r.guarantor = Me
        /\ TimeValid(r, t)
        /\ KeyOf(r) = key}

GetIdfLogs(p, guarantee, key) ==
    /\ pc[p] = "idle"
    /\ LET r == Req("get_idf_logs", guarantee, Me, key, NoExp)
       IN  \/ Statement(p, r, db, seq, OkRows(IdfLogsOf(Visible(p), guarantee, key, now)))
           \/ StatementFails(p, r)

\* -------------------------------------------------------------- path store
\* Hash::to_string(), the text stored in a VARCHAR column, and str::parse(),
\* which reads the hash back from the text
HashToString(h) == [text |-> h]
ParseHash(s) == s.text

\* i64::try_from(u64) fits unless bit 63 is set; u64::try_from(i64) fits
\* unless the value is negative
FitsI64(u) == ~u.top
IntoI64(u) == u.low
FitsU64(i) == i >= 0
IntoU64(i) == U64(FALSE, i)

\* the row that stores a counter-signed path; every payload carries its own
\* nonce, which the model names after the row that stores the payload
NewDynPath(id, r) ==
    [id |-> id, nonce |-> id, guarantee |-> r.guarantee, guarantor |-> r.guarantor,
     created_date |-> r.created_date, expiration_date |-> r.expiration_date,
     kind |-> HashToString(r.key.kind), word |-> HashToString(r.key.word),
     path |-> HashToString(r.data.path), len |-> IntoI64(r.data.len)]

PutDynPath(p, path, verifies) ==
    /\ pc[p] = "idle"
    /\ seq.dyn_paths + Cardinality({q \in Callers : pc[q] = "path_insert"}) <= MaxPaths
    /\ LET r == [Req("put_dyn_path", path.guarantee, Me, path.key, path.expiration_date)
                    EXCEPT !.data = path.data]
       IN  IF ~verifies THEN Return(p, r, Err("signature"))
           ELSE IF ~FitsI64(path.data.len) THEN Return(p, r, Err("length"))
           ELSE Proceed(p, r, "path_insert")

\* (mutant) the insert replaces the rows stored for the same key and signers
PathUpsert(p) ==
    /\ pc[p] = "path_insert"
    /\ \/ Statement(p, req[p],
            [db EXCEPT !.dyn_paths =
                {x \in @ : ~(/\ x.kind = HashToString(req[p].key.kind)
                             /\ x.word = HashToString(req[p].key.word)
                             /\ x.guarantee = req[p].guarantee
                             /\ x.guarantor = req[p].guarantor)}
                \cup {NewDynPath(seq.dyn_paths, req[p])}],
            [seq EXCEPT !.dyn_paths = @ + 1],
            Ok)
       \/ StatementFails(p, req[p])

PathInsert(p) ==
    /\ pc[p] = "path_insert"
    /\ \/ Statement(p, req[p],
            [db EXCEPT !.dyn_paths = @ \cup {NewDynPath(seq.dyn_paths, req[p])}],
            [seq EXCEPT !.dyn_paths = @ + 1],
            Ok)
       \/ StatementFails(p, req[p])

\* the rows the filters of get_dyn_path select
DynPathsOf(d, guarantee, key, t) ==
    {r \in d.dyn_paths :
        /\ r.guarantee = UnwrapOr(guarantee, Me)
        /\ r.guarantor = Me
        /\ TimeValid(r, t)
        /\ r.kind = HashToString(key.kind)
        /\ r.word = HashToString(key.word)}

\* the GuarantorSigned<DynPath<Path>> built from a row
PathRecord(r) ==
    [nonce |-> r.nonce, guarantee |-> r.guarantee, guarantor |-> r.guarantor,
     created_date |-> r.created_date, expiration_date |-> r.expiration_date,
     kind |-> ParseHash(r.kind), word |-> ParseHash(r.word),
     data |-> PathData(ParseHash(r.path), IntoU64(r.len))]

\* Some(record) => Ok(Some(..)), or the error of a conversion; None => Ok(None)
PathResult(r) ==
    IF r.id = 0 THEN OkRows({})
    ELSE IF ~FitsU64(r.len) THEN Err("length")
    ELSE OkRows({PathRecord(r)})

GetDynPath(p, guarantee, key) ==
    /\ pc[p] = "idle"
    /\ LET r == Req("get_dyn_path", guarantee, Me, key, NoExp)
       IN  \/ \E rec \in Pop(DynPathsOf(Visible(p), guarantee, key, now)) :
                  Statement(p, r, db, seq, PathResult(rec))
           \/ StatementFails(p, r)

DeleteDynPathAll(p, kind) ==
    /\ pc[p] = "idle"
    /\ LET r == Req("delete_dyn_path_all", None, None, [NoKey EXCEPT !.kind = kind], NoExp)
       IN  \/ Statement(p, r,
                  [db EXCEPT !.dyn_paths = {x \in @ : x.kind # HashToString(kind)}], seq, Ok)
           \/ StatementFails(p, r)

\* ------------------------------------------------------------------- Next
\* the IDF engine: put_idf_log, delete_idf_all, get_idf_count, get_idf_logs
Next ==
    \/ Tick
    \/ \E p \in Callers :
        \/ \E w \in SignedWords, v \in BOOLEAN : PutIdfLog(p, w, v)
        \/ PutInsertLog(p)
        \/ PutSelect(p)
        \/ PutWrite(p)
        \/ \E k \in Kinds : DeleteIdfAll(p, k)
        \/ DelWords(p)
        \/ DelLogs(p)
        \/ FirstStatementFails(p)
        \/ TransactionFails(p)
        \/ \E k \in Keys : GetIdfCount(p, k)
        \/ \E g \in {None, "C"}, k \in Keys : GetIdfLogs(p, g, k)
        \/ Abandon(p)

Spec == Init /\ [][Next]_vars

\* the writers of the IDF engine alone: the steps that change committed rows
NextWrites ==
    \/ Tick
    \/ \E p \in Callers :
        \/ \E w \in SignedWords, v \in BOOLEAN : PutIdfLog(p, w, v)
        \/ PutInsertLog(p)
        \/ PutSelect(p)
        \/ PutWrite(p)
        \/ \E k \in Kinds : DeleteIdfAll(p, k)
        \/ DelWords(p)
        \/ DelLogs(p)
        \/ FirstStatementFails(p)
        \/ TransactionFails(p)
        \/ Abandon(p)

SpecWrites == Init /\ [][NextWrites]_vars

\* the trust registry: ensure_registered, add_guarantee, delete_guarantee
NextRegistry ==
    \/ Tick
    \/ \E p \in Callers :
        \/ \E g \in Accounts, gr \in Accounts : EnsureRegistered(p, g, gr)
        \/ EnsureQuery(p)
        \/ \E g \in Accounts, e \in Expirations, v \in BOOLEAN : AddGuarantee(p, g, e, v)
        \/ AddInsert(p)
        \/ \E g \in Accounts : DeleteGuarantee(p, g)
        \/ Abandon(p)

SpecRegistry == Init /\ [][NextRegistry]_vars

\* the path store: put_dyn_path, get_dyn_path, delete_dyn_path_all
PathKeys == {Key("K1", None, "hello"), Key("K2", None, "hello")}

NextPaths ==
    \/ Tick
    \/ \E p \in Callers :
        \/ \E path \in SignedPaths, v \in BOOLEAN : PutDynPath(p, path, v)
        \/ PathInsert(p)
        \/ \E g \in {None, "C"}, k \in PathKeys : GetDynPath(p, g, k)
        \/ \E k \in Kinds : DeleteDynPathAll(p, k)
        \/ Abandon(p)

SpecPaths == Init /\ [][NextPaths]_vars

\* a client's session over the registry and the stores: add_guarantee,
\* delete_guarantee, put_idf_log, put_dyn_path, get_idf_count
ClientWords == {w \in SignedWords : w.guarantee = "C" /\ w.key.kind = "K1"}
ClientPaths == {x \in SignedPaths : x.guarantee = "C" \/ x.data.len.top}

\* the session is one connection of the client: its calls come one at a time
Session == {"c1"}

NextSession ==
    \/ Tick
    \/ \E p \in Session :
        \/ \E v \in BOOLEAN : AddGuarantee(p, "C", NoExp, v)
        \/ AddInsert(p)
        \/ DeleteGuarantee(p, "C")
        \/ \E w \in ClientWords, v \in BOOLEAN : PutIdfLog(p, w, v)
        \/ PutInsertLog(p)
        \/ PutSelect(p)
        \/ PutWrite(p)
        \/ FirstStatementFails(p)
        \/ TransactionFails(p)
        \/ \E x \in ClientPaths, v \in BOOLEAN : PutDynPath(p, x, v)
        \/ PathInsert(p)
        \/ \E w \in ClientWords : GetIdfCount(p, w.key)
        \/ Abandon(p)

SpecSession == Init /\ [][NextSession]_vars

\* ------------------------------------------------------------------ replicas
\* two server processes on one backend: each has its own connection and its
\* own mutex, and serves one of the callers. The backend already holds one
\* put of the word the callers submit, stored before the replicas started
\* (its log row is numbered 0: the rows of this run are numbered from 1).
ReplicaWord == SignedWord("C", Key("K1", "en", "hello"), NoExp)

InitReplicas ==
    /\ now = 0
    /\ db = [accounts_guarantees |-> {}, dyn_paths |-> {},
             idf_words |-> {NewIdfWord(1, ReplicaWord.key, 1)},
             idf_logs |-> {NewIdfLog(0, Req("put_idf_log", ReplicaWord.guarantee, Me,
                                            ReplicaWord.key, ReplicaWord.expiration_date))}]
    /\ seq = [accounts_guarantees |-> 1, dyn_paths |-> 1, idf_words |-> 2, idf_logs |-> 1]
    /\ mutex = [s \in Servers |-> None]
    /\ serverOf = [p \in Callers |-> IF p = "c1" THEN "s1" ELSE "s2"]
    /\ pc = [p \in Callers |-> "idle"]
    /\ req = [p \in Callers |-> NoReq]
    /\ local = [p \in Callers |-> NoWord]
    /\ tx = [p \in Callers |-> NoTx]
    /\ ret = NoRet
    /\ puts = [k \in Keys |-> IF k = ReplicaWord.key THEN 1 ELSE 0]

NextReplicas ==
    \/ Tick
    \/ \E p \in Callers :
        \/ \E v \in BOOLEAN : PutIdfLog(p, ReplicaWord, v)
        \/ PutInsertLog(p)
        \/ PutSelect(p)
        \/ PutWrite(p)
        \/ FirstStatementFails(p)
        \/ TransactionFails(p)
        \/ GetIdfCount(p, ReplicaWord.key)
        \/ Abandon(p)

SpecReplicas == InitReplicas /\ [][NextReplicas]_vars

\* ------------------------------------------------------------- scheduling
\* the operations that wait for the connection, with one word and one kind,
\* under the scheduling the runtime gives them
NextLive ==
    \E p \in Callers :
        \/ \E v \in BOOLEAN : PutIdfLog(p, ReplicaWord, v)
        \/ PutInsertLog(p)
        \/ PutSelect(p)
        \/ PutWrite(p)
        \/ DeleteIdfAll(p, ReplicaWord.key.kind)
        \/ DelWords(p)
        \/ DelLogs(p)
        \/ FirstStatementFails(p)
        \/ TransactionFails(p)
        \/ GetIdfCount(p, ReplicaWord.key)
        \/ EnsureRegistered(p, ReplicaWord.guarantee, Me)
        \/ EnsureQuery(p)
        \/ Abandon(p)

\* tokio's Mutex hands the lock to its waiters in the order they asked, so a
\* waiter whose lock is free again and again gets it (strong fairness); the
\* closure of a transaction is synchronous code that runs to its end (weak
\* fairness)
Fairness ==
    \A p \in Callers :
        /\ SF_vars(PutInsertLog(p) \/ DelWords(p) \/ EnsureQuery(p))
        /\ WF_vars(PutSelect(p) \/ PutWrite(p) \/ DelLogs(p))

SpecLive == Init /\ [][NextLive]_vars /\ Fairness

\* ---------------------------------------------------------- validated tier
\* put_idf_log and put_dyn_path of the validated tier: ensure_registered of
\* the payload's guarantee with this server, then the _unsafe operation
Validated(p, r, unsafe) ==
    /\ pc[p] = "idle"
    /\ IF SelfAuthentication(r.guarantee, Me) THEN unsafe ELSE Proceed(p, r, "put_ensure")

PutIdfLogChecked(p, word) ==
    /\ seq.idf_logs
         + Cardinality({q \in Callers : pc[q] \in {"put_ensure", "put_lock"}
                                          /\ req[q].op = "put_idf_log"}) <= MaxLogs
    /\ Validated(p, Req("put_idf_log", word.guarantee, Me, word.key, word.expiration_date),
                 \E v \in BOOLEAN : PutIdfLog(p, word, v))

PutDynPathChecked(p, path) ==
    /\ seq.dyn_paths
         + Cardinality({q \in Callers : pc[q] \in {"put_ensure", "path_insert"}
                                          /\ req[q].op = "put_dyn_path"}) <= MaxPaths
    /\ Validated(p, [Req("put_dyn_path", path.guarantee, Me, path.key, path.expiration_date)
                        EXCEPT !.data = path.data],
                 \E v \in BOOLEAN : PutDynPath(p, path, v))

\* the registry lookup of the validated put; when it passes, the _unsafe
\* operation starts: its validation, then the wait for the connection
PutEnsure(p) ==
    /\ pc[p] = "put_ensure"
    /\ LET r == req[p]
           v == EnsureResult(db, r.guarantee, r.guarantor, now)
       IN  \/ /\ ~v.ok
              /\ Statement(p, r, db, seq, v)
           \/ /\ v.ok /\ MutexFree(p)
              /\ \E verifies \in BOOLEAN :
                    IF ~verifies THEN Return(p, r, Err("signature"))
                    ELSE IF ~FitsI64(r.data.len) THEN Return(p, r, Err("length"))
                    ELSE Proceed(p, r, IF r.op = "put_idf_log" THEN "put_lock" ELSE "path_insert")
           \/ StatementFails(p, r)

\* the payloads of the validated tier: of the client, and of the server
\* itself; the operator registers and revokes the client from its own session
ValidatedWords == {w \in SignedWords : w.key.kind = "K1"}
ValidatedPaths == {x \in SignedPaths : x.data.path = "A" /\ ~x.data.len.top}

NextValidated ==
    \/ Tick
    \/ \E p \in Callers \ Session :
        \/ \E v \in BOOLEAN : AddGuarantee(p, "C", NoExp, v)
        \/ AddInsert(p)
        \/ DeleteGuarantee(p, "C")
        \/ Abandon(p)
    \/ \E p \in Session :
        \/ \E w \in ValidatedWords : PutIdfLogChecked(p, w)
        \/ \E x \in ValidatedPaths : PutDynPathChecked(p, x)
        \/ PutEnsure(p)
        \/ PutInsertLog(p)
        \/ PutSelect(p)
        \/ PutWrite(p)
        \/ FirstStatementFails(p)
        \/ TransactionFails(p)
        \/ PathInsert(p)
        \/ Abandon(p)

SpecValidated == Init /\ [][NextValidated]_vars

\* ------------------------------------------------------------ properties
\* what get_idf_count(key) returns when it reads the tables d
CountsRead(d, key) == {CountOf(w) : w \in Pop(WordRows(d, key))}

IsReturn(op) == ret.op = op
Succeeded(op) == ret.op = op /\ ret.result.ok

\* C1: starting from a key with no rows, after n put_idf_log calls for it have
\* returned Ok one after the other, get_idf_count of the key returns exactly n.
C1_SequentialPutsCounted ==
    Succeeded("get_idf_count") => ret.result.count = puts[ret.key]

C1_Witness ==
    /\ Succeeded("get_idf_count")
    /\ puts[ret.key] >= 2
    /\ ret.result.count = puts[ret.key]

\* C2: two put_idf_log calls for one word that overlap on one server never both
\* hold the same aggregate read by their SELECT, and when the second of two
\* successful puts from an absent aggregate returns, the count read is 2.
C2_NoLostUpdate ==
    /\ \A p \in Callers, q \in Callers :
           (p # q /\ pc[p] = "put_write" /\ pc[q] = "put_write"
                  /\ req[p].key = req[q].key)
               => local[p] # local[q]
    /\ (Succeeded("put_idf_log") /\ puts[ret.key] = 2) => CountsRead(db, ret.key) = {2}

\* the second call waits for the connection while the first is in its transaction
C2_Witness ==
    \E p \in Callers, q \in Callers :
        /\ pc[p] = "put_write" /\ local[p] = NoWord
        /\ pc[q] = "put_lock" /\ req[q].key = req[p].key
        /\ WordRows(db, req[p].key) = {}

\* C3: in every committed state, the count of a key's aggregate row is the
\* number of its log rows, whether time-valid or not, and a key has an
\* aggregate row exactly when it has log rows.
C3_CountEqualsLogRows ==
    \A key \in Keys :
        /\ \A w \in WordRows(db, key) : w.count = Cardinality(LogRows(db, key))
        /\ (WordRows(db, key) = {}) <=> (LogRows(db, key) = {})

\* an aggregate that counts a log row whose expiration_date has passed
C3_Witness ==
    \E key \in Keys : \E w \in WordRows(db, key) : \E r \in LogRows(db, key) :
        /\ w.count >= 1
        /\ r.expiration_date # NoExp /\ r.expiration_date < now

\* C4: a put_idf_log that returns an error, or that its caller abandons,
\* leaves the committed tables as they were: neither its log row nor an
\* aggregate change is persisted.
C4_PutAllOrNothing ==
    [][(ret'.op = "put_idf_log" /\ ~ret'.result.ok) => db' = db]_vars

\* the put failed after its log row was inserted: the id is used, no row is stored
C4_Witness ==
    /\ IsReturn("put_idf_log") /\ ret.result.err = "backend"
    /\ seq.idf_logs = 2 /\ db.idf_logs = {} /\ db.idf_words = {}

\* C5: right after delete_idf_all(kind) returned Ok, get_idf_count reads 0 for
\* every word of the kind and get_idf_logs reads no row for every word of the
\* kind, every guarantee and every time of the query.
C5_DeleteIdfAllEmpties ==
    Succeeded("delete_idf_all") =>
        \A key \in Keys : key.kind = ret.key.kind =>
            /\ CountsRead(db, key) = {0}
            /\ \A g \in Accounts \cup {None}, t \in 0..MaxTime :
                   IdfLogsOf(db, g, key, t) = {}

\* the delete removed rows of its kind and kept the rows of the other kind
C5_Witness ==
    /\ Succeeded("delete_idf_all")
    /\ seq.idf_logs = 3 /\ Cardinality(db.idf_logs) = 1
    /\ \A r \in db.idf_logs : r.kind # ret.key.kind /\ r.id = 1

\* C6: while delete_idf_all is between its two DELETEs, no other caller reads
\* a key of the kind with log rows and no aggregate row, or the reverse.
C6_DeleteIsAtomic ==
    \A q \in Callers : pc[q] = "del_logs" =>
        \A p \in Callers \ {q} : \A key \in Keys : key.kind = req[q].key.kind =>
            (WordRows(Visible(p), key) = {}) <=> (LogRows(Visible(p), key) = {})

\* the aggregate rows are deleted in the open transaction, the log rows not yet
C6_Witness ==
    \E q \in Callers :
        /\ pc[q] = "del_logs" /\ tx[q].delWords # {}
        /\ \E key \in Keys : key.kind = req[q].key.kind /\ LogRows(Visible(q), key) # {}

\* C7 (as stated): ensure_registered(g, g) succeeds for every account g.
C7_SelfAlwaysSucceeds ==
    (IsReturn("ensure_registered") /\ ret.guarantee = ret.guarantor) => ret.result.ok

\* C7 (amended): ensure_registered(g, g) succeeds for g the server's own
\* account, with no registration row needed, and never reaches the registry
\* lookup.
C7_SelfAuthentication ==
    /\ (IsReturn("ensure_registered") /\ ret.guarantee = ret.guarantor
            /\ ret.guarantor = Me) => ret.result.ok
    /\ \A p \in Callers : pc[p] = "ensure_query" => req[p].guarantee # req[p].guarantor

C7_Witness ==
    /\ Succeeded("ensure_registered")
    /\ ret.guarantee = Me /\ ret.guarantor = Me
    /\ db.accounts_guarantees = {}

\* C8: ensure_registered fails whenever the guarantor given is not the
\* server's own account, whatever the guarantee and the registry.
C8_GuarantorMustBeMe ==
    (IsReturn("ensure_registered") /\ ret.guarantor # Me) => ~ret.result.ok

C8_Witness ==
    /\ IsReturn("ensure_registered") /\ ret.result.err = "guarantor"
    /\ ret.guarantor # Me /\ ret.guarantee = ret.guarantor
    /\ db.accounts_guarantees # {}

\* a registration row of (guarantee, guarantor) that is time-valid at t
Registered(d, guarantee, guarantor, t) ==
    \E r \in d.accounts_guarantees : RegistrationMatches(r, guarantee, guarantor, t)

\* the registry lookup of ensure_registered returned, and not with a failure
\* of the connection or a dropped call
LookedUp ==
    /\ IsReturn("ensure_registered")
    /\ ret.guarantee # ret.guarantor /\ ret.guarantor = Me
    /\ ret.result.err \notin {"backend", "abandoned"}

\* C9: for guarantee # guarantor = the server's account, ensure_registered
\* succeeds exactly when accounts_guarantees holds a row of that guarantee and
\* guarantor with created_date < now and expiration_date absent or >= now.
C9_RegisteredIffValidRow ==
    LookedUp => (ret.result.ok <=> Registered(db, ret.guarantee, ret.guarantor, now))

\* C10: once add_guarantee stored the registration of a client, ensure_registered
\* of the client succeeds while the row's validity window holds; with no row of
\* the client (none added yet, or delete_guarantee removed them) it fails.
C10_AddThenEnsure ==
    LookedUp =>
        /\ Registered(db, ret.guarantee, ret.guarantor, now) => ret.result.ok
        /\ (\A r \in db.accounts_guarantees : r.guarantee # ret.guarantee) => ~ret.result.ok

\* C11: a put_dyn_path(p) that returned Ok, followed by get_dyn_path(None,
\* key of p), returns Some(record) whose kind, word, path value and path len
\* are those of p. Stated for the p that None selects (signed by the server's
\* own account) and that is time-valid when it is read.
C11_PutThenGetRoundTrip ==
    [][(/\ Succeeded("put_dyn_path") /\ ret.guarantee = Me
        /\ ret'.op = "get_dyn_path" /\ ret'.result.ok
        /\ ret'.guarantee = None /\ ret'.key = ret.key
        /\ \E r \in db.dyn_paths : r.id = seq.dyn_paths - 1 /\ TimeValid(r, now))
       => \E rec \in ret'.result.rows :
              /\ rec.kind = ret.key.kind /\ rec.word = ret.key.word
              /\ rec.data = ret.data]_vars

\* the rows of (guarantee or the server itself, guarantor = the server, kind,
\* word) that are time-valid at t
ValidMatches(d, guarantee, key, t) ==
    {r \in d.dyn_paths :
        /\ r.guarantee = (IF guarantee = None THEN Me ELSE guarantee)
        /\ r.guarantor = Me
        /\ r.created_date < t
        /\ (r.expiration_date = NoExp \/ r.expiration_date >= t)
        /\ ParseHash(r.kind) = key.kind /\ ParseHash(r.word) = key.word}

\* C12: get_dyn_path returns the time-valid row of its scope with the highest
\* row id, also when several rows share one created_date, and None when no
\* row qualifies.
C12_ReturnsLastInserted ==
    Succeeded("get_dyn_path") =>
        LET m == ValidMatches(db, ret.guarantee, ret.key, now)
        IN  IF m = {} THEN ret.result.rows = {}
            ELSE \E r \in m :
                    /\ \A x \in m : x.id <= r.id
                    /\ \A rec \in ret.result.rows : rec.nonce = r.nonce
                    /\ ret.result.rows # {}

\* (not the claim) get_dyn_path returns a row of its scope that is time-valid,
\* and None exactly when there is none
GetDynPathInScope ==
    Succeeded("get_dyn_path") =>
        LET m == ValidMatches(db, ret.guarantee, ret.key, now)
        IN  /\ \A rec \in ret.result.rows : \E r \in m : rec.nonce = r.nonce
            /\ (ret.result.rows = {}) <=> (m = {})

\* C13: get_idf_logs returns exactly the stored log rows of the query's (kind,
\* lang, word) whose guarantee is the one given (the server's own account when
\* absent), whose guarantor is the server's account, and whose created_date is
\* before now and expiration_date absent or not before now: none of these
\* rows is omitted and no other row is returned.
C13_LogsExactlyValidMatches ==
    Succeeded("get_idf_logs") =>
        LET wanted(r) ==
                /\ r.kind = ret.key.kind /\ r.lang = ret.key.lang /\ r.word = ret.key.word
                /\ r.guarantee = (IF ret.guarantee = None THEN Me ELSE ret.guarantee)
                /\ r.guarantor = Me
                /\ r.created_date < now
                /\ (r.expiration_date = NoExp \/ r.expiration_date >= now)
        IN  /\ \A r \in db.idf_logs : wanted(r) => r \in ret.result.rows
            /\ \A r \in ret.result.rows : r \in db.idf_logs /\ wanted(r)

\* a row of the key is returned and another row of the key is left out
C13_Witness ==
    /\ Succeeded("get_idf_logs")
    /\ ret.result.rows # {}
    /\ LogRows(db, ret.key) \ ret.result.rows # {}

\* C14: delete_guarantee changes no idf_logs, idf_words or dyn_paths row, and
\* get_idf_count keeps returning the number of puts of the word after the
\* guarantee that put them is deleted: the aggregate does not depend on the
\* registry.
C14_RevocationKeepsData ==
    /\ [][(ret'.op = "delete_guarantee") =>
              /\ db'.idf_logs = db.idf_logs
              /\ db'.idf_words = db.idf_words
              /\ db'.dyn_paths = db.dyn_paths]_vars
    /\ [](Succeeded("get_idf_count") => ret.result.count = puts[ret.key])

\* the client registered, put its word and a path, and was revoked: the count
\* of its puts is still read
C14_Witness ==
    /\ Succeeded("get_idf_count")
    /\ ret.result.count = MaxLogs /\ puts[ret.key] = MaxLogs
    /\ db.accounts_guarantees = {} /\ seq.accounts_guarantees > 1
    /\ db.dyn_paths # {}
    /\ \A r \in LogRows(db, ret.key) : r.guarantee = "C"

\* C16: when sign_as_guarantor, or the conversion of the path length, fails in
\* add_guarantee, put_dyn_path or put_idf_log, the error is returned with the
\* tables, the id sequences and the open transactions as they were.
C16_ValidationBeforeWrite ==
    [][(/\ ret'.op \in {"add_guarantee", "put_dyn_path", "put_idf_log"}
        /\ ret'.result.err \in {"signature", "length"})
       => (db' = db /\ seq' = seq /\ tx' = tx /\ mutex' = mutex)]_vars

\* a path whose length does not fit is refused while rows are stored
C16_Witness ==
    /\ IsReturn("put_dyn_path") /\ ret.result.err = "length"
    /\ db.dyn_paths # {} /\ db.idf_logs # {}

C17_ReplicasNoLostUpdate ==
    \A key \in Keys : CountsRead(db, key) = {puts[key]}

\* C18: from one committed state to the next, the count of a key decreases
\* only in a delete_idf_all of the key's kind that returned Ok, and a
\* put_idf_log that returned Ok raises the count of its own key by exactly 1
\* and leaves the count of every other key as it was.
C18_CountMonotone ==
    [][\A key \in Keys :
          /\ (\E n \in CountsRead(db, key), m \in CountsRead(db', key) : m < n)
                => /\ ret'.op = "delete_idf_all" /\ ret'.result.ok
                   /\ ret'.key.kind = key.kind
          /\ (ret'.op = "put_idf_log" /\ ret'.result.ok)
                => CountsRead(db', key) =
                      {IF key = ret'.key THEN n + 1 ELSE n : n \in CountsRead(db, key)}]_vars

\* a put raised the count of its key from 1 to 2
C18_Witness ==
    /\ Succeeded("put_idf_log")
    /\ CountsRead(db, ret.key) = {2} /\ puts[ret.key] = 2

\* C19: a caller inside the transaction of put_idf_log or delete_idf_all holds
\* the lock of its connection, no two callers of one server are inside a
\* transaction together, and no operation that used the connection returned
\* while a transaction was open: no read or write of another operation runs
\* between the steps of a transaction.
C19_ExclusiveConnection ==
    /\ \A p \in Callers : pc[p] \in TxStates => mutex[serverOf[p]] = p
    /\ \A p \in Callers, q \in Callers :
           (p # q /\ serverOf[p] = serverOf[q])
               => ~(pc[p] \in TxStates /\ pc[q] \in TxStates)
    /\ \A p \in Callers : pc[p] \notin TxStates => tx[p] = NoTx
    /\ (ret.op # None /\ ret.result.err \notin {"signature", "abandoned"})
           => \A p \in Callers : pc[p] \notin TxStates

\* one caller is inside its transaction, the other waits for the connection
C19_Witness ==
    \E p \in Callers, q \in Callers :
        /\ pc[p] = "put_select" /\ mutex[serverOf[p]] = p
        /\ pc[q] = "del_lock" /\ serverOf[q] = serverOf[p]

\* C20: no caller that returned holds the connection, whether it returned with
\* success, with a backend error or with a signing failure, and every
\* operation in progress, waiting for the connection or holding it, returns.
C20_ConnectionReleased ==
    /\ [](\A p \in Callers : pc[p] = "idle" => mutex[serverOf[p]] # p)
    /\ \A p \in Callers : (pc[p] # "idle") ~> (pc[p] = "idle")

\* a put failed inside its transaction after its log row was inserted; the
\* connection is free and the other caller waits for it
C20_Witness ==
    \E q \in Callers :
        /\ IsReturn("put_idf_log") /\ ret.result.err = "backend" /\ seq.idf_logs > 1
        /\ pc[q] \in {"put_lock", "del_lock", "ensure_query"}
        /\ mutex[serverOf[q]] = None

\* the dyn_paths rows of a key and its signers
SameKeyPaths(d, r) ==
    {x \in d.dyn_paths :
        /\ x.kind = r.kind /\ x.word = r.word
        /\ x.guarantee = r.guarantee /\ x.guarantor = r.guarantor}

\* C21: every put_dyn_path that returns Ok adds exactly one dyn_paths row and
\* leaves every row stored before as it was, also when rows of the same
\* (kind, word, guarantee, guarantor) exist: the rows of the key are one more.
C21_PutDynPathAppends ==
    [][(ret'.op = "put_dyn_path" /\ ret'.result.ok) =>
          \E r \in db'.dyn_paths :
              /\ r \notin db.dyn_paths
              /\ db'.dyn_paths = db.dyn_paths \cup {r}
              /\ r.guarantee = ret'.guarantee /\ r.guarantor = ret'.guarantor
              /\ ParseHash(r.kind) = ret'.key.kind /\ ParseHash(r.word) = ret'.key.word
              /\ Cardinality(SameKeyPaths(db', r)) = Cardinality(SameKeyPaths(db, r)) + 1]_vars

\* the put of a key that already had a row: the key now has MaxPaths rows
C21_Witness ==
    /\ Succeeded("put_dyn_path")
    /\ \E r \in db.dyn_paths :
           /\ r.id = seq.dyn_paths - 1
           /\ Cardinality(SameKeyPaths(db, r)) = MaxPaths
           /\ \E x \in SameKeyPaths(db, r) : x.path # r.path

\* C22: on one server, whatever the puts and deletes and their overlap, the
\* committed idf_words table, and the table as any statement sees it inside a
\* transaction, holds at most one aggregate row per (kind, lang, word).
C22_OneAggregatePerKey ==
    \A key \in Keys :
        /\ Cardinality(WordRows(db, key)) <= 1
        /\ \A p \in Callers : Cardinality(WordRows(Visible(p), key)) <= 1

\* the aggregate of a kind was deleted and a later put made the key's one row
C22_Witness ==
    /\ Succeeded("put_idf_log")
    /\ \E w \in db.idf_words :
           /\ db.idf_words = {w}
           /\ w.id = 2 /\ w.count = 1 /\ KeyOf(w) = ret.key

====
